---- MODULE Spec2Model ----
(***************************************************************************)
(* Proof-parameter registry (src/src/registry.rs).                         *)
(*                                                                         *)
(* Two closed catalogs, RegisteredSealProof and RegisteredPoStProof, whose *)
(* variants resolve to a configuration, a circuit identifier, two cache    *)
(* paths and two content identifiers.  The registry reads two shared       *)
(* tables of the proving library: POREP_PARTITIONS (sector size -> number  *)
(* of partitions) and PARAMETERS (file name -> entry with a cid).          *)
(*                                                                         *)
(* Conventions of the model                                                *)
(*  - a variant is its discriminant (0..4); the catalog it belongs to is   *)
(*    given beside it ("Seal" or "PoSt");                                  *)
(*  - a u64 byte count is the pair <<hi, lo>> standing for hi * 2^20 + lo  *)
(*    with lo < 2^20 (32 GiB = 2^35 does not fit a 32-bit integer);       *)
(*  - the outcome of a call is a record [tag, val]: tag "value" for a      *)
(*    plain return, "Ok" / "Err" for a returned Result, "panic" for an     *)
(*    unwinding panic (val is then the panic message);                     *)
(*  - RwLock::read().unwrap() is taken to succeed: the registry never      *)
(*    takes the write lock, and a panic under a read guard does not poison *)
(*    the lock.                                                            *)
(*                                                                         *)
(* A step of the model is one access of a call to shared state.  The five *)
(* seal methods that go on after as_v1_config() take two steps: the read   *)
(* of the Partition Table under its read lock, and, the lock released,     *)
(* the rest of the call up to its return (for the cid lookups the read of  *)
(* the Parameter Table).  Every other method makes at most one shared      *)
(* access and is one step.                                                 *)
(*                                                                         *)
(* In Spec and SpecDeployed the callers take turns: a call returns before  *)
(* the next one begins.  In SpecConcurrent the calls overlap: between the  *)
(* two steps of a call the other callers take steps and make whole calls,  *)
(* and an earlier circuit_identifier() call is remembered.                 *)
(***************************************************************************)
EXTENDS Integers, Sequences, FiniteSets, TLC

\* ------------------------------------------------------------------ bounds

\* Number of concurrent callers (threads) of the registry.
NumCallers == 2
\* Largest number of sector sizes an initial Partition Table may lack.
MaxAbsent == 1
\* Largest number of sector sizes whose circuits may lack Parameter Table
\* entries in an initial Parameter Table.
MaxLagging == 1

\* ------------------------------------------------------- outcomes of a call

Value(x) == [tag |-> "value", val |-> x]
Ok(x) == [tag |-> "Ok", val |-> x]
Err(e) == [tag |-> "Err", val |-> e]
Panic(msg) == [tag |-> "panic", val |-> msg]

\* ------------------------------------------------------------ the catalogs

StackedDrg1KiBV1 == 0
StackedDrg16MiBV1 == 1
StackedDrg256MiBV1 == 2
StackedDrg1GiBV1 == 3
StackedDrg32GiBV1 == 4

RegisteredSealProof ==
  {StackedDrg1KiBV1, StackedDrg16MiBV1, StackedDrg256MiBV1, StackedDrg1GiBV1,
   StackedDrg32GiBV1}

RegisteredPoStProof ==
  {StackedDrg1KiBV1, StackedDrg16MiBV1, StackedDrg256MiBV1, StackedDrg1GiBV1,
   StackedDrg32GiBV1}

\* enum Version { V1 }
Version == {"V1"}

\* ------------------------------------- constants of the proving library

SECTOR_SIZE_ONE_KIB == <<0, 1024>>
SECTOR_SIZE_16_MIB == <<16, 0>>
SECTOR_SIZE_256_MIB == <<256, 0>>
SECTOR_SIZE_1_GIB == <<1024, 0>>
SECTOR_SIZE_32_GIB == <<32768, 0>>

SINGLE_PARTITION_PROOF_LEN == 192
POST_CHALLENGE_COUNT == 40
POST_CHALLENGED_NODES == 1

\* u64::from(SectorSize) > 0
U64Positive(s) == s[1] > 0 \/ s[2] > 0

\* ------------------------------------------------- RegisteredSealProof

Seal_version(v) ==
  CASE v \in RegisteredSealProof -> "V1"

Seal_sector_size(v) ==
  CASE v = StackedDrg1KiBV1 -> SECTOR_SIZE_ONE_KIB
    [] v = StackedDrg16MiBV1 -> SECTOR_SIZE_16_MIB
    [] v = StackedDrg256MiBV1 -> SECTOR_SIZE_256_MIB
    [] v = StackedDrg1GiBV1 -> SECTOR_SIZE_1_GIB
    [] v = StackedDrg32GiBV1 -> SECTOR_SIZE_32_GIB

\* Mutation: the last arm looks up a sector size the library has no entry for.
Seal_partitions_key_unknown_size(v) ==
  CASE v = StackedDrg1KiBV1 -> SECTOR_SIZE_ONE_KIB
    [] v = StackedDrg16MiBV1 -> SECTOR_SIZE_16_MIB
    [] v = StackedDrg256MiBV1 -> SECTOR_SIZE_256_MIB
    [] v = StackedDrg1GiBV1 -> SECTOR_SIZE_1_GIB
    [] v = StackedDrg32GiBV1 -> <<65536, 0>>

\* Mutation: the last arm is a copy of the arm before it.
Seal_partitions_key_copied_arm(v) ==
  CASE v = StackedDrg1KiBV1 -> SECTOR_SIZE_ONE_KIB
    [] v = StackedDrg16MiBV1 -> SECTOR_SIZE_16_MIB
    [] v = StackedDrg256MiBV1 -> SECTOR_SIZE_256_MIB
    [] v = StackedDrg1GiBV1 -> SECTOR_SIZE_1_GIB
    [] v = StackedDrg32GiBV1 -> SECTOR_SIZE_1_GIB

\* The key each match arm of partitions() looks up.
Seal_partitions_key(v) ==
  CASE v = StackedDrg1KiBV1 -> SECTOR_SIZE_ONE_KIB
    [] v = StackedDrg16MiBV1 -> SECTOR_SIZE_16_MIB
    [] v = StackedDrg256MiBV1 -> SECTOR_SIZE_256_MIB
    [] v = StackedDrg1GiBV1 -> SECTOR_SIZE_1_GIB
    [] v = StackedDrg32GiBV1 -> SECTOR_SIZE_32_GIB

\* Mutation: a fixed number of partitions instead of the table's entry.
Seal_partitions_default(v, partitionTable) ==
  IF Seal_partitions_key(v) \in DOMAIN partitionTable
    THEN Value(2)
    ELSE Panic("invalid sector size")

\* *POREP_PARTITIONS.read().unwrap().get(&key).expect("invalid sector size")
Seal_partitions(v, partitionTable) ==
  IF Seal_partitions_key(v) \in DOMAIN partitionTable
    THEN Value(partitionTable[Seal_partitions_key(v)])
    ELSE Panic("invalid sector size")

\* Mutation: the lookup is written with insert(key, 1), which hands back the
\* previous entry and leaves 1 in the table.
Seal_partitions_table_after_insert(v, partitionTable) ==
  (Seal_partitions_key(v) :> 1) @@ partitionTable

\* The Partition Table after partitions(): the lookup is made through the read
\* guard, read().unwrap().get(&key), which leaves the table as it was.
Seal_partitions_table_after(v, partitionTable) == partitionTable

Seal_single_partition_proof_len(v) ==
  CASE v \in RegisteredSealProof -> SINGLE_PARTITION_PROOF_LEN

\* Mutation: every configuration is given the sector size of the first variant.
Seal_as_v1_config_fixed_size(v, partitionTable) ==
  IF Seal_partitions(v, partitionTable).tag = "panic"
    THEN Seal_partitions(v, partitionTable)
    ELSE Value([sector_size |-> SECTOR_SIZE_ONE_KIB,
                partitions |-> Seal_partitions(v, partitionTable).val])

\* as_v1_config(): the assertion on the version, then the PoRepConfig record;
\* the panic of partitions() unwinds through it.
Seal_as_v1_config(v, partitionTable) ==
  IF Seal_version(v) # "V1"
    THEN Panic("assertion failed: left == right")
    ELSE IF Seal_partitions(v, partitionTable).tag = "panic"
      THEN Seal_partitions(v, partitionTable)
      ELSE Value([sector_size |-> Seal_sector_size(v),
                  partitions |-> Seal_partitions(v, partitionTable).val])

\* ------------------------------------------------- RegisteredPoStProof

PoSt_version(v) ==
  CASE v \in RegisteredPoStProof -> "V1"

PoSt_sector_size(v) ==
  CASE v = StackedDrg1KiBV1 -> SECTOR_SIZE_ONE_KIB
    [] v = StackedDrg16MiBV1 -> SECTOR_SIZE_16_MIB
    [] v = StackedDrg256MiBV1 -> SECTOR_SIZE_256_MIB
    [] v = StackedDrg1GiBV1 -> SECTOR_SIZE_1_GIB
    [] v = StackedDrg32GiBV1 -> SECTOR_SIZE_32_GIB

\* Mutation: no partition at all.
PoSt_partitions_zero(v) ==
  CASE v \in RegisteredPoStProof -> Value(0)

PoSt_partitions(v) ==
  CASE v \in RegisteredPoStProof -> Value(1)

PoSt_single_partition_proof_len(v) ==
  CASE v \in RegisteredPoStProof -> SINGLE_PARTITION_PROOF_LEN

PoSt_as_v1_config(v) ==
  IF PoSt_version(v) # "V1"
    THEN Panic("assertion failed: left == right")
    ELSE Value([sector_size |-> PoSt_sector_size(v),
                challenge_count |-> POST_CHALLENGE_COUNT,
                challenged_nodes |-> POST_CHALLENGED_NODES,
                priority |-> TRUE])

\* --------------------------------- configuration methods of the library

\* PoRepConfig::get_cache_identifier / PoStConfig::get_cache_identifier: a
\* digest of the circuit's parameters, which are computed from the fields of
\* the configuration.  The digest is kept symbolic: the family of the circuit
\* and the fields it is computed from.
PoRepConfig_get_cache_identifier(config) ==
  Ok([circuit |-> "stacked-proof-of-replication", fields |-> config])

PoStConfig_get_cache_identifier(config) ==
  Ok([circuit |-> "proof-of-spacetime-election", fields |-> config])

\* format!("{}.vk", &id), format!("{}.params", &id)
Format(id, ext) == <<id, ext>>

\* parameter_cache_verifying_key_path(id), parameter_cache_params_path(id):
\* the file of that name under the cache directory; no file is touched.
get_cache_verifying_key_path(id) ==
  Ok([dir |-> "parameter_cache_dir", file |-> Format(id, ".vk")])

get_cache_params_path(id) ==
  Ok([dir |-> "parameter_cache_dir", file |-> Format(id, ".params")])

\* Mutation: the entry is unwrapped without the ensure! before it.
MissingParams_unwrap(id) == Panic("called Option::unwrap() on a None value")

\* ensure!(params.is_some(), "missing params for {}", &id)
MissingParams(id) == Err(<<"missing params for ", id>>)

\* ------------------------- RegisteredSealProof: identifier, paths, cids
\* Each of the five methods is self.as_v1_config() followed by the rest of the
\* call: X_of_config is that rest, on what as_v1_config() came back with (a
\* panic of as_v1_config() unwinds through the method).

\* .get_cache_identifier()
Seal_identifier_of_config(config) ==
  IF config.tag = "panic"
    THEN config
    ELSE PoRepConfig_get_cache_identifier(config.val)

\* .get_cache_verifying_key_path()
Seal_verifying_key_path_of_config(config) ==
  LET id == Seal_identifier_of_config(config)
  IN  IF id.tag = "Ok" THEN get_cache_verifying_key_path(id.val) ELSE id

\* .get_cache_params_path()
Seal_params_path_of_config(config) ==
  LET id == Seal_identifier_of_config(config)
  IN  IF id.tag = "Ok" THEN get_cache_params_path(id.val) ELSE id

\* .get_cache_identifier()?, PARAMETERS.get(id.vk), ensure!, Ok(cid)
Seal_verifying_key_cid_of_config(config, parameters) ==
  LET id == Seal_identifier_of_config(config)
  IN  IF id.tag # "Ok" THEN id
      ELSE IF Format(id.val, ".vk") \notin DOMAIN parameters
        THEN MissingParams(id.val)
        ELSE Ok(parameters[Format(id.val, ".vk")].cid)

\* Mutation: params_cid() looks up the .vk file.
Seal_params_cid_of_config_vk_key(config, parameters) ==
  LET id == Seal_identifier_of_config(config)
  IN  IF id.tag # "Ok" THEN id
      ELSE IF Format(id.val, ".vk") \notin DOMAIN parameters
        THEN MissingParams(id.val)
        ELSE Ok(parameters[Format(id.val, ".vk")].cid)

\* .get_cache_identifier()?, PARAMETERS.get(id.params), ensure!, Ok(cid)
Seal_params_cid_of_config(config, parameters) ==
  LET id == Seal_identifier_of_config(config)
  IN  IF id.tag # "Ok" THEN id
      ELSE IF Format(id.val, ".params") \notin DOMAIN parameters
        THEN MissingParams(id.val)
        ELSE Ok(parameters[Format(id.val, ".params")].cid)

\* The five methods from call to return, over tables that stay as they are.
Seal_circuit_identifier(v, partitionTable) ==
  Seal_identifier_of_config(Seal_as_v1_config(v, partitionTable))

Seal_cache_verifying_key_path(v, partitionTable) ==
  Seal_verifying_key_path_of_config(Seal_as_v1_config(v, partitionTable))

Seal_cache_params_path(v, partitionTable) ==
  Seal_params_path_of_config(Seal_as_v1_config(v, partitionTable))

Seal_verifying_key_cid(v, partitionTable, parameters) ==
  Seal_verifying_key_cid_of_config(Seal_as_v1_config(v, partitionTable), parameters)

Seal_params_cid(v, partitionTable, parameters) ==
  Seal_params_cid_of_config(Seal_as_v1_config(v, partitionTable), parameters)

\* ------------------------- RegisteredPoStProof: identifier, paths, cids

PoSt_circuit_identifier(v) ==
  IF PoSt_as_v1_config(v).tag = "panic"
    THEN PoSt_as_v1_config(v)
    ELSE PoStConfig_get_cache_identifier(PoSt_as_v1_config(v).val)

PoSt_cache_verifying_key_path(v) ==
  LET id == PoSt_circuit_identifier(v)
  IN  IF id.tag = "Ok" THEN get_cache_verifying_key_path(id.val) ELSE id

PoSt_cache_params_path(v) ==
  LET id == PoSt_circuit_identifier(v)
  IN  IF id.tag = "Ok" THEN get_cache_params_path(id.val) ELSE id

PoSt_verifying_key_cid(v, parameters) ==
  LET id == PoSt_circuit_identifier(v)
  IN  IF id.tag # "Ok" THEN id
      ELSE IF Format(id.val, ".vk") \notin DOMAIN parameters
        THEN MissingParams(id.val)
        ELSE Ok(parameters[Format(id.val, ".vk")].cid)

PoSt_params_cid(v, parameters) ==
  LET id == PoSt_circuit_identifier(v)
  IN  IF id.tag # "Ok" THEN id
      ELSE IF Format(id.val, ".params") \notin DOMAIN parameters
        THEN MissingParams(id.val)
        ELSE Ok(parameters[Format(id.val, ".params")].cid)

\* ------------------------------------- #[derive(Serialize, Deserialize)]

\* Mutation: two variants renamed to the same tag.
Seal_variant_name_duplicate(v) ==
  CASE v = StackedDrg1KiBV1 -> "StackedDrg1KiBV1"
    [] v = StackedDrg16MiBV1 -> "StackedDrg1KiBV1"
    [] v = StackedDrg256MiBV1 -> "StackedDrg256MiBV1"
    [] v = StackedDrg1GiBV1 -> "StackedDrg1GiBV1"
    [] v = StackedDrg32GiBV1 -> "StackedDrg32GiBV1"

\* The tag of a variant is its name.
Seal_variant_name(v) ==
  CASE v = StackedDrg1KiBV1 -> "StackedDrg1KiBV1"
    [] v = StackedDrg16MiBV1 -> "StackedDrg16MiBV1"
    [] v = StackedDrg256MiBV1 -> "StackedDrg256MiBV1"
    [] v = StackedDrg1GiBV1 -> "StackedDrg1GiBV1"
    [] v = StackedDrg32GiBV1 -> "StackedDrg32GiBV1"

PoSt_variant_name(v) ==
  CASE v = StackedDrg1KiBV1 -> "StackedDrg1KiBV1"
    [] v = StackedDrg16MiBV1 -> "StackedDrg16MiBV1"
    [] v = StackedDrg256MiBV1 -> "StackedDrg256MiBV1"
    [] v = StackedDrg1GiBV1 -> "StackedDrg1GiBV1"
    [] v = StackedDrg32GiBV1 -> "StackedDrg32GiBV1"

Seal_serialize(v) == Value(Seal_variant_name(v))

PoSt_serialize(v) == Value(PoSt_variant_name(v))

\* The derived visitor: the variant of that name, or the unknown-variant error.
Seal_deserialize(tag) ==
  IF \E v \in RegisteredSealProof : Seal_variant_name(v) = tag
    THEN Ok(CHOOSE v \in RegisteredSealProof : Seal_variant_name(v) = tag)
    ELSE Err(<<"unknown variant ", tag>>)

PoSt_deserialize(tag) ==
  IF \E v \in RegisteredPoStProof : PoSt_variant_name(v) = tag
    THEN Ok(CHOOSE v \in RegisteredPoStProof : PoSt_variant_name(v) = tag)
    ELSE Err(<<"unknown variant ", tag>>)

\* ------------------------------------------------------------------ state

VARIABLES
  POREP_PARTITIONS,  \* the Partition Table: sector size -> partitions (u8)
  PARAMETERS,        \* the Parameter Table: file name -> [cid]
  ret,               \* the last call that returned, by any caller, and its outcome
  pc,                \* per caller: the seal call it is inside, past as_v1_config()
  remembered         \* an earlier circuit_identifier() call and its outcome

vars == <<POREP_PARTITIONS, PARAMETERS, ret, pc, remembered>>

\* No call made yet.
Idle == [catalog |-> "none", op |-> "none", arg |-> -1, out |-> Value("none")]

Callers == 1..NumCallers

\* A caller that is inside no call.
Outside == [op |-> "none", arg |-> -1, config |-> Value("none")]

\* Caller c is inside a seal call: as_v1_config() has come back, the read lock
\* is released, the rest of the call is to come.
InFlight(c) == pc[c].arg \in RegisteredSealProof

\* No call is under way.
Alone == \A c \in Callers : ~InFlight(c)

\* Some caller is inside no call, and can make one.
SomeoneFree == {c \in Callers : ~InFlight(c)} # {}

\* The seal methods that go on after self.as_v1_config() has come back.
SplitMethods ==
  {"circuit_identifier", "cache_verifying_key_path", "cache_params_path",
   "verifying_key_cid", "params_cid"}

\* The rest of method op after as_v1_config() came back with config.
Seal_method_of_config(op, config, parameters) ==
  CASE op = "circuit_identifier" -> Seal_identifier_of_config(config)
    [] op = "cache_verifying_key_path" -> Seal_verifying_key_path_of_config(config)
    [] op = "cache_params_path" -> Seal_params_path_of_config(config)
    [] op = "verifying_key_cid" -> Seal_verifying_key_cid_of_config(config, parameters)
    [] op = "params_cid" -> Seal_params_cid_of_config(config, parameters)

\* The methods of a seal variant that go through partitions().
TableReadingMethods ==
  {"partitions", "as_v1_config", "circuit_identifier", "cache_verifying_key_path",
   "cache_params_path", "verifying_key_cid", "params_cid"}

\* The Partition Table after method op of seal variant v.
Seal_method_table_after(op, v, partitionTable) ==
  IF op \in TableReadingMethods
    THEN Seal_partitions_table_after(v, partitionTable)
    ELSE partitionTable

\* The methods of a variant.
Methods ==
  {"version", "sector_size", "partitions", "single_partition_proof_len",
   "as_v1_config", "circuit_identifier", "cache_verifying_key_path",
   "cache_params_path", "verifying_key_cid", "params_cid", "serialize"}

\* The tags handed to deserialize: the names of the variants, and tags that
\* name no variant.
Tags ==
  {Seal_variant_name(v) : v \in RegisteredSealProof}
    \cup {PoSt_variant_name(v) : v \in RegisteredPoStProof}
    \cup {"", "stackeddrg1kibv1", "StackedDrg2KiBV1", "V1"}

\* impl RegisteredSealProof: the outcome of method op on variant v.
Seal_method(op, v, partitionTable, parameters) ==
  CASE op = "version" -> Value(Seal_version(v))
    [] op = "sector_size" -> Value(Seal_sector_size(v))
    [] op = "partitions" -> Seal_partitions(v, partitionTable)
    [] op = "single_partition_proof_len" -> Value(Seal_single_partition_proof_len(v))
    [] op = "as_v1_config" -> Seal_as_v1_config(v, partitionTable)
    [] op = "circuit_identifier" -> Seal_circuit_identifier(v, partitionTable)
    [] op = "cache_verifying_key_path" -> Seal_cache_verifying_key_path(v, partitionTable)
    [] op = "cache_params_path" -> Seal_cache_params_path(v, partitionTable)
    [] op = "verifying_key_cid" -> Seal_verifying_key_cid(v, partitionTable, parameters)
    [] op = "params_cid" -> Seal_params_cid(v, partitionTable, parameters)
    [] op = "serialize" -> Seal_serialize(v)

\* impl RegisteredPoStProof: the outcome of method op on variant v.
PoSt_method(op, v, parameters) ==
  CASE op = "version" -> Value(PoSt_version(v))
    [] op = "sector_size" -> Value(PoSt_sector_size(v))
    [] op = "partitions" -> PoSt_partitions(v)
    [] op = "single_partition_proof_len" -> Value(PoSt_single_partition_proof_len(v))
    [] op = "as_v1_config" -> PoSt_as_v1_config(v)
    [] op = "circuit_identifier" -> PoSt_circuit_identifier(v)
    [] op = "cache_verifying_key_path" -> PoSt_cache_verifying_key_path(v)
    [] op = "cache_params_path" -> PoSt_cache_params_path(v)
    [] op = "verifying_key_cid" -> PoSt_verifying_key_cid(v, parameters)
    [] op = "params_cid" -> PoSt_params_cid(v, parameters)
    [] op = "serialize" -> PoSt_serialize(v)

\* ------------------------------------------------------- initial tables

SectorSizes ==
  {SECTOR_SIZE_ONE_KIB, SECTOR_SIZE_16_MIB, SECTOR_SIZE_256_MIB,
   SECTOR_SIZE_1_GIB, SECTOR_SIZE_32_GIB}

\* The Partition Table as deployed with the catalog: an entry per sector size.
DeployedPartitions == [s \in SectorSizes |-> 2]

\* A Partition Table whose entries differ from one sector size to the next.
GradedPartitions ==
  [s \in SectorSizes |->
     CASE s = SECTOR_SIZE_ONE_KIB -> 1
       [] s = SECTOR_SIZE_16_MIB -> 2
       [] s = SECTOR_SIZE_256_MIB -> 3
       [] s = SECTOR_SIZE_1_GIB -> 4
       [] s = SECTOR_SIZE_32_GIB -> 5]

Restrict(f, S) == [x \in S |-> f[x]]

\* Partition Tables out of step with the catalog: up to MaxAbsent sizes absent,
\* and the table with no entry at all.
PartitionTables ==
  {Restrict(base, SectorSizes \ A) :
     base \in {DeployedPartitions, GradedPartitions},
     A \in {X \in SUBSET SectorSizes : Cardinality(X) <= MaxAbsent}}
    \cup {Restrict(DeployedPartitions, {})}

\* The identifiers reachable from the two catalogs under a Partition Table.
ReachableIdentifiers(partitionTable) ==
  {Seal_circuit_identifier(v, partitionTable).val :
     v \in {w \in RegisteredSealProof :
              Seal_circuit_identifier(w, partitionTable).tag = "Ok"}}
    \cup {PoSt_circuit_identifier(v).val : v \in RegisteredPoStProof}

Kinds == {".vk", ".params"}

\* The Parameter Table that holds both entries of every reachable identifier;
\* the cid of a file stands for the hash of that file's content.
FullParameters(partitionTable) ==
  [k \in {Format(id, e) : id \in ReachableIdentifiers(partitionTable), e \in Kinds}
     |-> [cid |-> <<"cid of ", k>>]]

\* Parameter Tables that lag the catalog: for up to MaxLagging sector sizes the
\* files of the circuits of that size are not published yet; what is missing
\* is their .vk entry, their .params entry or both.
LaggingParameters(partitionTable) ==
  {Restrict(FullParameters(partitionTable),
            DOMAIN FullParameters(partitionTable)
              \ {Format(id, e) :
                   id \in {i \in ReachableIdentifiers(partitionTable) :
                             i.fields.sector_size \in L},
                   e \in K}) :
     L \in {X \in SUBSET SectorSizes : Cardinality(X) <= MaxLagging},
     K \in {{".vk"}, {".params"}, Kinds}}

NoCalls ==
  /\ ret = Idle
  /\ pc = [c \in Callers |-> Outside]
  /\ remembered = Idle

InitDeployed ==
  /\ POREP_PARTITIONS = DeployedPartitions
  /\ PARAMETERS = FullParameters(DeployedPartitions)
  /\ NoCalls

Init ==
  /\ \/ /\ POREP_PARTITIONS \in PartitionTables
        /\ PARAMETERS = FullParameters(POREP_PARTITIONS)
     \/ /\ POREP_PARTITIONS = DeployedPartitions
        /\ PARAMETERS \in LaggingParameters(DeployedPartitions)
  /\ NoCalls

\* Both tables populated for the whole catalog, the entries of the Partition
\* Table differing from one sector size to the next.
InitPopulated ==
  /\ POREP_PARTITIONS = GradedPartitions
  /\ PARAMETERS = FullParameters(POREP_PARTITIONS)
  /\ NoCalls

\* ---------------------------------------------------------------- actions
\* A panic unwinds the calling thread only; the tables stay usable and the
\* other callers go on.  The actions say nothing of remembered: the
\* next-state relations do.

\* Caller c enters method op of seal variant v and runs self.as_v1_config():
\* partitions() reads the Partition Table under the read lock, and c holds
\* what came back.
SealBegin(c, op, v) ==
  /\ ~InFlight(c)
  /\ op \in SplitMethods
  /\ pc' = [pc EXCEPT ![c] =
              [op |-> op, arg |-> v,
               config |-> Seal_as_v1_config(v, POREP_PARTITIONS)]]
  /\ POREP_PARTITIONS' = Seal_partitions_table_after(v, POREP_PARTITIONS)
  /\ UNCHANGED <<PARAMETERS, ret>>

\* Caller c runs the rest of its call on the configuration it holds: the
\* library call and, for the cid lookups, the read of the Parameter Table as
\* it is now; the call returns.
SealFinish(c) ==
  /\ InFlight(c)
  /\ ret' = [catalog |-> "Seal", op |-> pc[c].op, arg |-> pc[c].arg,
             out |-> Seal_method_of_config(pc[c].op, pc[c].config, PARAMETERS)]
  /\ pc' = [pc EXCEPT ![c] = Outside]
  /\ UNCHANGED <<POREP_PARTITIONS, PARAMETERS>>

\* A caller calls a seal method that makes at most one shared access:
\* version, sector_size, single_partition_proof_len and serialize make none,
\* partitions and as_v1_config read the Partition Table once.
SealCall(op, v) ==
  /\ SomeoneFree
  /\ op \notin SplitMethods
  /\ ret' = [catalog |-> "Seal", op |-> op, arg |-> v,
             out |-> Seal_method(op, v, POREP_PARTITIONS, PARAMETERS)]
  /\ POREP_PARTITIONS' = Seal_method_table_after(op, v, POREP_PARTITIONS)
  /\ UNCHANGED <<PARAMETERS, pc>>

\* A caller calls a method of a PoSt variant.  None of them goes through the
\* Partition Table; the cid lookups read the Parameter Table once.
PoStCall(op, v) ==
  /\ SomeoneFree
  /\ ret' = [catalog |-> "PoSt", op |-> op, arg |-> v,
             out |-> PoSt_method(op, v, PARAMETERS)]
  /\ UNCHANGED <<POREP_PARTITIONS, PARAMETERS, pc>>

\* A caller deserializes a tag as a seal variant.
SealDeserialize(tag) ==
  /\ SomeoneFree
  /\ ret' = [catalog |-> "Seal", op |-> "deserialize", arg |-> tag,
             out |-> Seal_deserialize(tag)]
  /\ UNCHANGED <<POREP_PARTITIONS, PARAMETERS, pc>>

\* A caller deserializes a tag as a PoSt variant.
PoStDeserialize(tag) ==
  /\ SomeoneFree
  /\ ret' = [catalog |-> "PoSt", op |-> "deserialize", arg |-> tag,
             out |-> PoSt_deserialize(tag)]
  /\ UNCHANGED <<POREP_PARTITIONS, PARAMETERS, pc>>

\* No history is kept.
Forget == UNCHANGED remembered

\* When a call returns, the call that had returned before it may become the
\* remembered one if it was a circuit_identifier() call: over all behaviours
\* the remembered call is any earlier circuit_identifier() call, not only the
\* one just before.
Remember ==
  remembered' \in
    {remembered} \cup (IF ret.op = "circuit_identifier" THEN {ret} ELSE {})

\* ------------------------------------------------ callers taking turns
\* A call returns before the next one begins.  Nothing records who made a
\* call, so when calls do not overlap it makes no difference which caller
\* has the turn: the first one is given it.

FirstCaller == CHOOSE c \in Callers : \A d \in Callers : c <= d

Next ==
  \/ \E op \in SplitMethods, v \in RegisteredSealProof :
       Alone /\ SealBegin(FirstCaller, op, v) /\ Forget
  \/ \E c \in Callers : SealFinish(c) /\ Forget
  \/ \E op \in Methods \ SplitMethods, v \in RegisteredSealProof :
       Alone /\ SealCall(op, v) /\ Forget
  \/ \E op \in Methods, v \in RegisteredPoStProof :
       Alone /\ PoStCall(op, v) /\ Forget
  \/ \E tag \in Tags : Alone /\ SealDeserialize(tag) /\ Forget
  \/ \E tag \in Tags : Alone /\ PoStDeserialize(tag) /\ Forget

\* Any tables within the bounds.
Spec == Init /\ [][Next]_vars

\* The tables as deployed with the catalog.
SpecDeployed == InitDeployed /\ [][Next]_vars

\* ------------------------------------------------ callers overlapping

\* The variants the overlapping calls are made on: the smallest and the
\* largest sector size.
ConcurrentVariants == {StackedDrg1KiBV1, StackedDrg32GiBV1}

NextConcurrent ==
  \/ \E c \in Callers, op \in SplitMethods, v \in ConcurrentVariants :
       SealBegin(c, op, v) /\ Forget
  \/ \E c \in Callers : SealFinish(c) /\ Remember
  \/ \E op \in Methods \ SplitMethods, v \in ConcurrentVariants :
       SealCall(op, v) /\ Remember
  \/ \E v \in ConcurrentVariants :
       PoStCall("circuit_identifier", v) /\ Remember

\* Overlapping calls over populated tables.
SpecConcurrent == InitPopulated /\ [][NextConcurrent]_vars

\* ================================================================ claims

CidMethods == {"verifying_key_cid", "params_cid"}

\* The identifier of variant v of a catalog under the tables of this state.
IdentifierOf(catalog, v) ==
  IF catalog = "Seal"
    THEN Seal_circuit_identifier(v, POREP_PARTITIONS)
    ELSE PoSt_circuit_identifier(v)

SectorSizeOf(catalog, v) ==
  IF catalog = "Seal" THEN Seal_sector_size(v) ELSE PoSt_sector_size(v)

VariantsOf(catalog) ==
  IF catalog = "Seal" THEN RegisteredSealProof ELSE RegisteredPoStProof

IsMethodCall == ret.catalog \in {"Seal", "PoSt"} /\ ret.op \in Methods

\* C1: with the tables deployed for the whole catalog (both entries of every
\* reachable identifier present), as_v1_config() of every seal and every PoSt
\* variant returns without a panic, and circuit_identifier(), both cache paths
\* and both cid lookups return Ok.
C1_AccessorsSucceed ==
  IsMethodCall =>
    /\ ret.op = "as_v1_config" => ret.out.tag = "value"
    /\ ret.op \in {"circuit_identifier", "cache_verifying_key_path",
                   "cache_params_path", "verifying_key_cid", "params_cid"}
         => ret.out.tag = "Ok"

C1_Witness ==
  /\ ret.catalog = "Seal"
  /\ ret.op = "verifying_key_cid"
  /\ ret.arg = StackedDrg32GiBV1
  /\ ret.out.tag = "Ok"

\* C2: for every variant of both catalogs partitions() > 0, sector_size() > 0,
\* single_partition_proof_len() > 0 and version() = V1 (tables as deployed).
C2_AccessorsPositive ==
  IsMethodCall =>
    /\ ret.op = "partitions" => ret.out.tag = "value" /\ ret.out.val > 0
    /\ ret.op = "sector_size" => ret.out.tag = "value" /\ U64Positive(ret.out.val)
    /\ ret.op = "single_partition_proof_len"
         => ret.out.tag = "value" /\ ret.out.val > 0
    /\ ret.op = "version" => ret.out = Value("V1")

C2_Witness ==
  /\ ret.catalog = "Seal"
  /\ ret.op = "partitions"
  /\ ret.arg = StackedDrg1KiBV1
  /\ ret.out.tag = "value"
  /\ ret.out.val > 0

\* C3: the two cid lookups of a variant are independent per file kind: when the
\* Parameter Table lacks "<identifier>.vk" and holds "<identifier>.params",
\* verifying_key_cid() returns the missing-parameters error and params_cid()
\* returns Ok with the cid stored under the .params key; on a hit each lookup
\* returns exactly the cid stored under its own key.
C3_LookupsIndependent ==
  (IsMethodCall /\ ret.op \in CidMethods
     /\ IdentifierOf(ret.catalog, ret.arg).tag = "Ok") =>
    LET id == IdentifierOf(ret.catalog, ret.arg).val
        vk == Format(id, ".vk")
        params == Format(id, ".params")
    IN  /\ (ret.op = "verifying_key_cid" /\ vk \notin DOMAIN PARAMETERS)
             => ret.out = Err(<<"missing params for ", id>>)
        /\ (ret.op = "params_cid" /\ params \in DOMAIN PARAMETERS)
             => ret.out = Ok(PARAMETERS[params].cid)
        /\ (ret.op = "verifying_key_cid" /\ vk \in DOMAIN PARAMETERS)
             => ret.out = Ok(PARAMETERS[vk].cid)

C3_Witness ==
  /\ ret.catalog = "Seal"
  /\ ret.op = "params_cid"
  /\ IdentifierOf("Seal", ret.arg).tag = "Ok"
  /\ Format(IdentifierOf("Seal", ret.arg).val, ".vk") \notin DOMAIN PARAMETERS
  /\ Format(IdentifierOf("Seal", ret.arg).val, ".params") \in DOMAIN PARAMETERS
  /\ ret.out.tag = "Ok"

\* C4 as stated: for every variant and any contents of the two tables,
\* verifying_key_cid() and params_cid() end by returning Ok or Err.
C4_Original ==
  (IsMethodCall /\ ret.op \in CidMethods) => ret.out.tag \in {"Ok", "Err"}

\* C4 as amended: verifying_key_cid() and params_cid() return Ok or Err for
\* every PoSt variant, and for every seal variant whose sector size has an
\* entry in the Partition Table; for a seal variant whose sector size has no
\* entry they panic with "invalid sector size".
C4_RecoverableUnlessPartitionAbsent ==
  (IsMethodCall /\ ret.op \in CidMethods) =>
    IF ret.catalog = "Seal" /\ Seal_sector_size(ret.arg) \notin DOMAIN POREP_PARTITIONS
      THEN ret.out = Panic("invalid sector size")
      ELSE ret.out.tag \in {"Ok", "Err"}

C4_Witness ==
  /\ ret.catalog = "Seal"
  /\ ret.op = "verifying_key_cid"
  /\ Seal_sector_size(ret.arg) \in DOMAIN POREP_PARTITIONS
  /\ ret.out.tag = "Err"

\* C5: seal partitions() panics exactly when the variant's sector size has no
\* entry in the Partition Table (and returns the entry otherwise); PoSt
\* partitions() returns 1 for every variant whatever the Partition Table
\* holds, the empty table included.
C5_PartitionsFatalOrConstant ==
  (IsMethodCall /\ ret.op = "partitions") =>
    /\ ret.catalog = "Seal" =>
         /\ ret.out.tag = "panic"
              <=> Seal_sector_size(ret.arg) \notin DOMAIN POREP_PARTITIONS
         /\ ret.out.tag # "panic"
              => ret.out = Value(POREP_PARTITIONS[Seal_sector_size(ret.arg)])
    /\ ret.catalog = "PoSt" => ret.out = Value(1)

C5_Witness ==
  /\ ret.catalog = "Seal"
  /\ ret.op = "partitions"
  /\ ret.arg = StackedDrg32GiBV1
  /\ ret.out.tag = "panic"

\* C6: the missing-parameters error carries the identifier and the file kind
\* that was looked up, so for one variant the error of a .vk miss differs from
\* the error of a .params miss.
C6_ErrorCarriesKind ==
  [][(/\ ret.op = "verifying_key_cid" /\ ret.out.tag = "Err"
      /\ ret'.op = "params_cid" /\ ret'.out.tag = "Err"
      /\ ret'.catalog = ret.catalog /\ ret'.arg = ret.arg)
       => ret'.out # ret.out]_vars

\* C7: once the tables are populated, in every interleaving of the steps of
\* concurrent callers any two calls of circuit_identifier() on the same variant
\* return the same string, and no step of any call changes the Partition Table
\* or the Parameter Table.
C7_IdentifierDeterministic ==
  /\ []((/\ remembered.op = "circuit_identifier"
         /\ ret.op = "circuit_identifier"
         /\ ret.catalog = remembered.catalog
         /\ ret.arg = remembered.arg)
          => (ret.out.tag = "Ok" /\ ret.out = remembered.out))
  /\ [][/\ POREP_PARTITIONS' = POREP_PARTITIONS
        /\ PARAMETERS' = PARAMETERS]_vars

\* Two calls on one seal variant, whose identifier depends on the entry read
\* from the Partition Table, have returned the same identifier, the second
\* while a third call on that variant had read the table and not yet returned.
C7_Witness ==
  /\ POREP_PARTITIONS = GradedPartitions
  /\ remembered.catalog = "Seal"
  /\ remembered.op = "circuit_identifier"
  /\ remembered.arg = StackedDrg32GiBV1
  /\ ret.catalog = "Seal"
  /\ ret.op = "circuit_identifier"
  /\ ret.arg = StackedDrg32GiBV1
  /\ ret.out = remembered.out
  /\ ret.out.tag = "Ok"
  /\ ret.out.val.fields.partitions = GradedPartitions[SECTOR_SIZE_32_GIB]
  /\ \E c \in Callers :
       /\ InFlight(c)
       /\ pc[c].op = "circuit_identifier"
       /\ pc[c].arg = StackedDrg32GiBV1

\* C8: for every variant v of either catalog deserialize(serialize(v)) = v,
\* the five tags of a catalog are pairwise distinct, and a tag that is not one
\* of the five fails to deserialize instead of producing a variant.
C8_SerdeRoundTrip ==
  /\ (ret.catalog = "Seal" /\ ret.op = "serialize") =>
       /\ Seal_deserialize(ret.out.val) = Ok(ret.arg)
       /\ \A w \in RegisteredSealProof \ {ret.arg} : Seal_serialize(w) # ret.out
  /\ (ret.catalog = "PoSt" /\ ret.op = "serialize") =>
       /\ PoSt_deserialize(ret.out.val) = Ok(ret.arg)
       /\ \A w \in RegisteredPoStProof \ {ret.arg} : PoSt_serialize(w) # ret.out
  /\ (ret.catalog = "Seal" /\ ret.op = "deserialize") =>
       /\ \A v \in RegisteredSealProof :
            Seal_serialize(v).val = ret.arg => ret.out = Ok(v)
       /\ (\A v \in RegisteredSealProof : Seal_serialize(v).val # ret.arg)
            => ret.out.tag = "Err"
  /\ (ret.catalog = "PoSt" /\ ret.op = "deserialize") =>
       /\ \A v \in RegisteredPoStProof :
            PoSt_serialize(v).val = ret.arg => ret.out = Ok(v)
       /\ (\A v \in RegisteredPoStProof : PoSt_serialize(v).val # ret.arg)
            => ret.out.tag = "Err"

C8_Witness ==
  /\ ret.catalog = "Seal"
  /\ ret.op = "deserialize"
  /\ ret.arg = Seal_serialize(StackedDrg256MiBV1).val
  /\ ret.out = Ok(StackedDrg256MiBV1)

\* C9: two variants of one catalog with different sector sizes have different
\* circuit identifiers; the five variants of a catalog have pairwise distinct
\* sector sizes, hence pairwise distinct identifiers and Parameter Table keys.
C9_Separation ==
  /\ (IsMethodCall /\ ret.op = "circuit_identifier" /\ ret.out.tag = "Ok") =>
       \A w \in VariantsOf(ret.catalog) :
         (w # ret.arg /\ IdentifierOf(ret.catalog, w).tag = "Ok") =>
           /\ SectorSizeOf(ret.catalog, w) # SectorSizeOf(ret.catalog, ret.arg)
           /\ IdentifierOf(ret.catalog, w) # ret.out
           /\ \A e1 \in Kinds, e2 \in Kinds :
                Format(IdentifierOf(ret.catalog, w).val, e1)
                  # Format(ret.out.val, e2)
  /\ (IsMethodCall /\ ret.op = "sector_size") =>
       \A w \in VariantsOf(ret.catalog) \ {ret.arg} :
         Value(SectorSizeOf(ret.catalog, w)) # ret.out

C9_Witness ==
  /\ ret.catalog = "Seal"
  /\ ret.op = "circuit_identifier"
  /\ ret.out.tag = "Ok"
  /\ \E w \in RegisteredSealProof :
       w # ret.arg /\ IdentifierOf("Seal", w).tag = "Ok"

\* C10: as_v1_config() of a seal variant whose sector size is in the Partition
\* Table is the record of the variant's sector size and of the table's entry
\* for that sector size; as_v1_config() of a PoSt variant is the record of the
\* variant's sector size, the two challenge constants and priority = true,
\* whatever the Partition Table holds.
C10_ConfigResolved ==
  (IsMethodCall /\ ret.op = "as_v1_config") =>
    /\ (ret.catalog = "Seal"
          /\ Seal_sector_size(ret.arg) \in DOMAIN POREP_PARTITIONS)
         => ret.out =
              Value([sector_size |-> Seal_sector_size(ret.arg),
                     partitions |-> POREP_PARTITIONS[Seal_sector_size(ret.arg)]])
    /\ ret.catalog = "PoSt"
         => ret.out =
              Value([sector_size |-> PoSt_sector_size(ret.arg),
                     challenge_count |-> POST_CHALLENGE_COUNT,
                     challenged_nodes |-> POST_CHALLENGED_NODES,
                     priority |-> TRUE])

C10_Witness ==
  /\ ret.catalog = "Seal"
  /\ ret.op = "as_v1_config"
  /\ ret.arg = StackedDrg1KiBV1
  /\ POREP_PARTITIONS = GradedPartitions
  /\ ret.out.tag = "value"
  /\ ret.out.val.partitions = POREP_PARTITIONS[SECTOR_SIZE_ONE_KIB]

====
